---- MODULE Spec2Model ----
(***************************************************************************)
(* A model of the crossword CSP solver of generate.py (CrosswordCreator):  *)
(* node consistency, AC-3, the consistency checker, the search heuristics  *)
(* and the backtracking search, over small grids and word lists.           *)
(*                                                                         *)
(* Words are sequences of letters; Python's 0-based index k of a word w is *)
(* w[k + 1] here.  A slot (Variable) is a record [i, j, direction,         *)
(* length].  A Python dict from slots to words is a function whose domain  *)
(* is the set of its keys.                                                 *)
(***************************************************************************)
EXTENDS Integers, Sequences, FiniteSets, TLC

(***************************************************************************)
(* Bounds of the model.                                                    *)
(***************************************************************************)
\* The largest number of words in a word list.
MaxWords == 3

Alphabet == {"a", "b"}

\* The lengths of the words of the word universe (the grids below have slots
\* of two and of three cells).
WordLengths == 2..3

\* Every word the word lists are drawn from.
WordUniverse == UNION {[1..n -> Alphabet] : n \in WordLengths}

WordLists == {ws \in SUBSET WordUniverse : Cardinality(ws) <= MaxWords}

(***************************************************************************)
(* The grids: sets of blank cells <<row, column>> of a 3 by 3 board.       *)
(***************************************************************************)
Structures ==
    { {<<0, 0>>, <<0, 1>>, <<0, 2>>},
      {<<0, 0>>, <<0, 1>>, <<0, 2>>, <<2, 0>>, <<2, 1>>, <<2, 2>>},
      {<<0, 0>>, <<0, 1>>, <<2, 0>>, <<2, 1>>, <<2, 2>>},
      {<<0, 0>>, <<0, 1>>, <<0, 2>>, <<1, 0>>, <<2, 0>>},
      {<<1, 0>>, <<1, 1>>, <<1, 2>>, <<0, 1>>, <<2, 1>>},
      {<<0, 0>>, <<0, 1>>, <<0, 2>>, <<1, 0>>, <<1, 2>>, <<2, 2>>},
      {<<0, 0>>, <<0, 1>>, <<1, 0>>, <<2, 1>>, <<2, 2>>} }

\* The grids of the calls of order_domain_values: those above and one whose
\* across slot crosses two down slots of its own length.
OrderStructures ==
    Structures
        \cup { {<<0, 0>>, <<0, 1>>, <<0, 2>>, <<1, 0>>, <<2, 0>>, <<1, 2>>, <<2, 2>>} }

VARIABLES
    structure,   \* crossword.structure: the blank cells of the grid
    words,       \* crossword.words: the word list
    variables,   \* crossword.variables: the slots of the grid
    overlaps,    \* crossword.overlaps: <<x, y>> -> None or <<ox, oy>>
    varOrder,    \* the iteration order of the dict self.domains
    domains,     \* self.domains: slot -> set of candidate words
    pc,          \* the position of the run inside solve()
    arcs,        \* the worklist of ac3
    ac3ret,      \* what ac3 returned: "none" (not yet), "true", "false"
    heap,        \* the assignment dicts of the search, by object identity
    stack,       \* the frames of the nested backtrack calls, root first
    ret,         \* the value the last finished backtrack call returned
    result,      \* what solve() returned
    call         \* the last direct call of a method and what it did

\* self.crossword: the fields of the Crossword object, which nothing changes.
crossword == <<structure, words, variables, overlaps>>

vars == <<structure, words, variables, overlaps, varOrder, domains, pc, arcs, ac3ret, heap, stack,
          ret, result, call>>

(***************************************************************************)
(* The structural model (crossword.Crossword, crossword.Variable).         *)
(***************************************************************************)
ACROSS == "across"
DOWN == "down"

RECURSIVE RunLength(_, _, _, _, _)
\* The number of consecutive blank cells of s from <<i, j>> on, in steps of
\* <<di, dj>>.
RunLength(s, i, j, di, dj) ==
    IF <<i, j>> \in s THEN 1 + RunLength(s, i + di, j + dj, di, dj) ELSE 0

\* crossword.variables: one slot per maximal run of two or more blank cells.
Variables(s) ==
    { [i |-> c[1], j |-> c[2], direction |-> DOWN,
       length |-> RunLength(s, c[1], c[2], 1, 0)] :
         c \in {d \in s : /\ <<d[1] - 1, d[2]>> \notin s
                          /\ RunLength(s, d[1], d[2], 1, 0) > 1} }
    \cup
    { [i |-> c[1], j |-> c[2], direction |-> ACROSS,
       length |-> RunLength(s, c[1], c[2], 0, 1)] :
         c \in {d \in s : /\ <<d[1], d[2] - 1>> \notin s
                          /\ RunLength(s, d[1], d[2], 0, 1) > 1} }

\* Variable.cells: the cells of slot v in order, cell k at index k + 1.
Cells(v) ==
    [k \in 1..v.length |->
        <<v.i + (IF v.direction = DOWN THEN k - 1 ELSE 0),
          v.j + (IF v.direction = ACROSS THEN k - 1 ELSE 0)>>]

\* The value of crossword.overlaps[x, y] when x and y share no cell.
None == <<>>

\* The entry of crossword.overlaps for x and y: None, or the 0-based offsets
\* <<ox, oy>> of the shared cell in x and in y.
SharedCell(x, y) ==
    LET shared == {Cells(x)[k] : k \in 1..x.length}
                     \cap {Cells(y)[k] : k \in 1..y.length}
    IN  IF shared = {} THEN None
        ELSE LET c == CHOOSE d \in shared : TRUE
             IN  << (CHOOSE k \in 1..x.length : Cells(x)[k] = c) - 1,
                    (CHOOSE k \in 1..y.length : Cells(y)[k] = c) - 1 >>

\* crossword.overlaps as the constructor of Crossword computes it for the
\* slots vs: one entry for every two different slots.
Overlaps(vs) ==
    [p \in {q \in vs \X vs : q[1] # q[2]} |-> SharedCell(p[1], p[2])]

Vars == variables

\* crossword.overlaps[x, y]
Overlap(x, y) == overlaps[<<x, y>>]

\* crossword.neighbors(var)
Neighbors(var) == {v \in Vars : v # var /\ Overlap(v, var) # None}

\* All orders in which a finite set can be iterated.
Orders(S) == {q \in [1..Cardinality(S) -> S] : \A a \in S : \E k \in DOMAIN q : q[k] = a}

\* The letter of word w at Python index k.
Letter(w, k) == w[k + 1]

(***************************************************************************)
(* Python dicts from slots to words.                                       *)
(***************************************************************************)
EmptyDict == <<>>

\* d after d[k] = w
DictSet(d, k, w) == [s \in (DOMAIN d) \cup {k} |-> IF s = k THEN w ELSE d[s]]

(***************************************************************************)
(* CrosswordCreator: the domain store and the consistency engine.          *)
(***************************************************************************)
\* __init__: every slot starts with the whole word list.
InitialDomains == [v \in Vars |-> words]

\* EnforceNodeConsistency with the test of line 105 as len(word) <= var.length.
EnforceNodeConsistencyAtMost(d) ==
    [v \in DOMAIN d |-> {w \in d[v] : Len(w) <= v.length}]

\* enforce_node_consistency: the domains it leaves, from the domains d.
EnforceNodeConsistency(d) ==
    [v \in DOMAIN d |-> {w \in d[v] : Len(w) = v.length}]

\* NewXDomain with all() for the any() of line 124: a word of x stays only
\* if every word of y agrees with it.
NewXDomainAll(d, x, y) ==
    LET o == Overlap(x, y)
    IN  {xWord \in d[x] :
           \A yWord \in d[y] : Letter(xWord, o[1]) = Letter(yWord, o[2])}

\* NewXDomain drawing the words of x from the word list rather than from
\* self.domains[x], so that a word another arc has removed comes back.
NewXDomainFromWordList(d, x, y) ==
    LET o == Overlap(x, y)
    IN  {xWord \in {w \in words : Len(w) = x.length} :
           \E yWord \in d[y] : Letter(xWord, o[1]) = Letter(yWord, o[2])}

\* The set newXDomain that revise(x, y) builds from the domains d, for
\* overlapping x and y.
NewXDomain(d, x, y) ==
    LET o == Overlap(x, y)
    IN  {xWord \in d[x] :
           \E yWord \in d[y] : Letter(xWord, o[1]) = Letter(yWord, o[2])}

\* Revise with the test of line 127 inverted (revisionMade = newXDomain ==
\* self.domains[x]).
ReviseInverted(d, x, y) ==
    IF Overlap(x, y) = None
    THEN [error |-> "TypeError", domains |-> d, revisionMade |-> FALSE]
    ELSE LET newXDomain == NewXDomain(d, x, y)
             revisionMade == (newXDomain = d[x])
         IN  [error |-> "none",
              domains |-> IF revisionMade THEN [d EXCEPT ![x] = newXDomain] ELSE d,
              revisionMade |-> revisionMade]

\* Revise returning True whether or not newXDomain differs from
\* self.domains[x].
ReviseAlwaysMade(d, x, y) ==
    IF Overlap(x, y) = None
    THEN [error |-> "TypeError", domains |-> d, revisionMade |-> FALSE]
    ELSE [error |-> "none",
          domains |-> [d EXCEPT ![x] = NewXDomain(d, x, y)],
          revisionMade |-> TRUE]

\* revise(x, y) on the domains d: the exception it raises ("none" if it
\* returns), the domains it leaves and the value it returns.  Subscripting the
\* overlap None raises TypeError before anything is changed.
Revise(d, x, y) ==
    IF Overlap(x, y) = None
    THEN [error |-> "TypeError", domains |-> d, revisionMade |-> FALSE]
    ELSE LET newXDomain == NewXDomain(d, x, y)
             revisionMade == ~(newXDomain = d[x])
         IN  [error |-> "none",
              domains |-> IF revisionMade THEN [d EXCEPT ![x] = newXDomain] ELSE d,
              revisionMade |-> revisionMade]

RECURSIVE ArcLists(_)
\* The lists of arcs that ac3 can build from the first k slots of varOrder:
\* the slots in the order of self.domains, each slot's neighbours in any order
\* (crossword.neighbors returns a set).
ArcLists(k) ==
    IF k = 0 THEN {<<>>}
    ELSE {p \o [m \in 1..Len(o) |-> <<varOrder[k], o[m]>>] :
            p \in ArcLists(k - 1), o \in Orders(Neighbors(varOrder[k]))}

\* Requeued with the loop of lines 157-158 left out: nothing is appended.
RequeuedNothing(x, y) == {<<>>}

\* The arcs ac3 appends after a revision of x against y: (n, x) for every
\* neighbour n of x but y, in any order.
Requeued(x, y) ==
    {[m \in 1..Len(o) |-> <<o[m], x>>] : o \in Orders(Neighbors(x) \ {y})}

(***************************************************************************)
(* CrosswordCreator: the consistency checker and the search heuristics.    *)
(***************************************************************************)
\* AssignmentComplete with the loop of line 167 over the keys of the
\* assignment instead of the slots.
AssignmentCompleteOverKeys(a) == \A variable \in DOMAIN a : variable \in DOMAIN a

\* assignment_complete(assignment); every value of a dict of the model is a
\* word, so the type test of line 170 never fails.
AssignmentComplete(a) == \A variable \in Vars : variable \in DOMAIN a

\* Consistent without the loop of lines 182-185 (duplicate words).
ConsistentNoDuplicates(a) ==
    IF \E variable \in DOMAIN a : variable.length # Len(a[variable]) THEN FALSE
    ELSE LET arcList == {arc \in (DOMAIN a) \X (DOMAIN a) : arc[2] \in Neighbors(arc[1])}
         IN  ~ \E arc \in arcList :
                 LET o == Overlap(arc[1], arc[2])
                 IN  Letter(a[arc[1]], o[1]) # Letter(a[arc[2]], o[2])

\* Consistent without the loop of lines 199-207 (the overlaps).
ConsistentNoArcs(a) ==
    IF \E k1, k2 \in DOMAIN a : k1 # k2 /\ a[k1] = a[k2] THEN FALSE
    ELSE IF \E variable \in DOMAIN a : variable.length # Len(a[variable]) THEN FALSE
    ELSE TRUE

\* consistent(assignment): the three loops with their early returns.
Consistent(a) ==
    IF \E k1, k2 \in DOMAIN a : k1 # k2 /\ a[k1] = a[k2] THEN FALSE
    ELSE IF \E variable \in DOMAIN a : variable.length # Len(a[variable]) THEN FALSE
    ELSE LET arcList == {arc \in (DOMAIN a) \X (DOMAIN a) : arc[2] \in Neighbors(arc[1])}
         IN  ~ \E arc \in arcList :
                 LET o == Overlap(arc[1], arc[2])
                 IN  Letter(a[arc[1]], o[1]) # Letter(a[arc[2]], o[2])

\* ChoicesRuledOut without the filter 'if item not in assignment' of line 224:
\* the assigned neighbours are counted too.
ChoicesRuledOutAllNeighbours(d, var, a, w) ==
    Cardinality({p \in UNION {{<<n, c>> : c \in d[n]} : n \in Neighbors(var)} :
                   LET o == Overlap(var, p[1])
                   IN  Letter(w, o[1]) # Letter(p[2], o[2])})

\* The number choicesRuledOut that order_domain_values(var, assignment)
\* computes for the word w of var's domain, on the domains d.
ChoicesRuledOut(d, var, a, w) ==
    Cardinality({p \in UNION {{<<n, c>> : c \in d[n]} : n \in Neighbors(var) \ DOMAIN a} :
                   LET o == Overlap(var, p[1])
                   IN  Letter(w, o[1]) # Letter(p[2], o[2])})

\* order_domain_values(var, assignment) on the domains d, the set
\* self.domains[var] being iterated in the order o: the keys of domainOnChoices
\* (in the order o, the order of insertion) sorted by their count; sorted() is
\* stable, so words with equal counts keep the order o.
OrderDomainValues(d, var, a, o) ==
    LET \* The items <<word, count, position in o>> of domainOnChoices.
        domainOnChoices ==
            {<<o[k], ChoicesRuledOut(d, var, a, o[k]), k>> : k \in DOMAIN o}
        \* The items that sorted() puts before the item p.
        ahead(p) ==
            {r \in domainOnChoices : r[2] < p[2] \/ (r[2] = p[2] /\ r[3] < p[3])}
    IN  [k \in DOMAIN o |->
            (CHOOSE p \in domainOnChoices : Cardinality(ahead(p)) = k - 1)[1]]

\* The position of slot v in the iteration order of self.domains.
Position(v) == CHOOSE k \in DOMAIN varOrder : varOrder[k] = v

\* The first slot of the set S in the iteration order of self.domains.
FirstOf(S) == CHOOSE v \in S : \A u \in S : Position(v) <= Position(u)

\* SelectUnassignedVariable without the tie-break of lines 259-269: the first
\* of the slots with the fewest remaining words is returned.
SelectWithoutDegree(d, a) ==
    LET unassigned == Vars \ DOMAIN a
        lowestDomainVal ==
            CHOOSE n \in {Cardinality(d[v]) : v \in unassigned} :
                \A v \in unassigned : n <= Cardinality(d[v])
        fewestRemainingDomains ==
            {v \in unassigned : Cardinality(d[v]) = lowestDomainVal}
    IN  FirstOf(fewestRemainingDomains)

\* select_unassigned_variable(assignment) on the domains d; called with at
\* least one slot unassigned.
SelectUnassignedVariable(d, a) ==
    LET unassigned == Vars \ DOMAIN a
        lowestDomainVal ==
            CHOOSE n \in {Cardinality(d[v]) : v \in unassigned} :
                \A v \in unassigned : n <= Cardinality(d[v])
        fewestRemainingDomains ==
            {v \in unassigned : Cardinality(d[v]) = lowestDomainVal}
        largestDegreeVal ==
            CHOOSE n \in {Cardinality(Neighbors(v)) : v \in fewestRemainingDomains} :
                \A v \in fewestRemainingDomains : n >= Cardinality(Neighbors(v))
        largestDegree ==
            {v \in fewestRemainingDomains : Cardinality(Neighbors(v)) = largestDegreeVal}
    IN  IF Cardinality(fewestRemainingDomains) = 1
        THEN FirstOf(fewestRemainingDomains)
        ELSE FirstOf(largestDegree)

(***************************************************************************)
(* The run of solve(), lines 88-94.                                        *)
(***************************************************************************)
NoVar == [i |-> -1, j |-> -1, direction |-> "none", length |-> 0]
NoWord == <<>>
NoCall == [op |-> "none"]

Running == [kind |-> "running", ref |-> 0]
ReturnedNone == [kind |-> "None", ref |-> 0]
ReturnedDict(r) == [kind |-> "dict", ref |-> r]

Pending == [kind |-> "pending", assignment |-> EmptyDict]
NoSolution == [kind |-> "None", assignment |-> EmptyDict]
Solution(a) == [kind |-> "dict", assignment |-> a]

\* A new frame of backtrack(assignment), the parameter bound to object r,
\* whose entries at the call are e.
Frame(r, e) ==
    [assignment |-> r, var |-> NoVar, tried |-> {}, value |-> NoWord,
     assignmentCopy |-> EmptyDict, entry |-> e, at |-> "entry"]

Init ==
    /\ structure \in Structures
    /\ words \in WordLists
    /\ variables = Variables(structure)
    /\ overlaps = Overlaps(variables)
    /\ varOrder \in Orders(Vars)
    /\ domains = InitialDomains
    /\ pc = "node"
    /\ arcs = <<>>
    /\ ac3ret = "none"
    /\ heap = <<>>
    /\ stack = <<>>
    /\ ret = Running
    /\ result = Pending
    /\ call = NoCall

\* Line 92: self.enforce_node_consistency()
SolveNodeConsistency ==
    /\ pc = "node"
    /\ domains' = EnforceNodeConsistency(domains)
    /\ pc' = "ac3"
    /\ UNCHANGED <<crossword, varOrder, arcs, ac3ret, heap, stack, ret,
                   result, call>>

\* Lines 93, 143-147: self.ac3() builds the list of all arcs.
Ac3Start ==
    /\ pc = "ac3"
    /\ arcs' \in ArcLists(Len(varOrder))
    /\ pc' = "ac3loop"
    /\ UNCHANGED <<crossword, varOrder, domains, ac3ret, heap, stack, ret,
                   result, call>>

\* Lines 149-158: one turn of the loop of ac3.
Ac3Step ==
    /\ pc = "ac3loop"
    /\ arcs # <<>>
    /\ LET nextArc == Head(arcs)
           r == Revise(domains, nextArc[1], nextArc[2])
       IN  /\ domains' = r.domains
           /\ IF r.error # "none"
              THEN /\ arcs' = Tail(arcs)
                   /\ pc' = "raised"
                   /\ ac3ret' = ac3ret
              ELSE IF r.revisionMade /\ r.domains[nextArc[1]] = {}
              THEN /\ arcs' = Tail(arcs)
                   /\ ac3ret' = "false"
                   /\ pc' = "bt"
              ELSE /\ IF r.revisionMade
                      THEN \E more \in Requeued(nextArc[1], nextArc[2]) :
                               arcs' = Tail(arcs) \o more
                      ELSE arcs' = Tail(arcs)
                   /\ UNCHANGED <<pc, ac3ret>>
    /\ UNCHANGED <<crossword, varOrder, heap, stack, ret, result, call>>

\* Line 160: the worklist is empty, ac3 returns True.
Ac3Done ==
    /\ pc = "ac3loop"
    /\ arcs = <<>>
    /\ ac3ret' = "true"
    /\ pc' = "bt"
    /\ UNCHANGED <<crossword, varOrder, domains, arcs, heap, stack, ret,
                   result, call>>

\* Line 94: solve() drops what ac3 returned and calls self.backtrack(dict()).
SolveBacktrack ==
    /\ pc = "bt"
    /\ heap' = <<EmptyDict, EmptyDict>>
    /\ stack' = <<Frame(1, EmptyDict)>>
    /\ ret' = Running
    /\ pc' = "search"
    /\ UNCHANGED <<crossword, varOrder, domains, arcs, ac3ret, result, call>>

(***************************************************************************)
(* backtrack(assignment), lines 271-295.  The frames of the nested calls   *)
(* are in stack; a frame's assignment is the identity of the dict its      *)
(* local name is bound to.  heap[1] is the dict solve() creates and        *)
(* heap[k + 1] the dict frame k binds by line 293 (a frame holds at most   *)
(* one such dict at a time, the earlier ones being unreachable).           *)
(***************************************************************************)
Depth == Len(stack)
Top == stack[Depth]

\* The stack with its top frame replaced by f.
SetTop(f) == [stack EXCEPT ![Depth] = f]

\* The stack after the top frame has returned.
Pop == SubSeq(stack, 1, Depth - 1)

\* Lines 280-283: the entry of a call.
BacktrackEnter ==
    /\ pc = "search"
    /\ Depth > 0
    /\ Top.at = "entry"
    /\ IF AssignmentComplete(heap[Top.assignment])
       THEN /\ stack' = Pop
            /\ ret' = ReturnedDict(Top.assignment)
       ELSE /\ stack' = SetTop([Top EXCEPT
                   !.var = SelectUnassignedVariable(domains, heap[Top.assignment]),
                   !.at = "loop"])
            /\ ret' = ret
    /\ UNCHANGED <<crossword, varOrder, domains, pc, arcs, ac3ret, heap,
                   result, call>>

\* BacktrackTry without line 289 (assignment[var] = value): the recursive
\* call receives the dict as the call found it.
BacktrackTryNoExtend ==
    /\ pc = "search"
    /\ Depth > 0
    /\ Top.at = "loop"
    /\ \E value \in domains[Top.var] \ Top.tried :
         LET assignmentCopy == DictSet(heap[Top.assignment], Top.var, value)
             f == [Top EXCEPT !.value = value, !.assignmentCopy = assignmentCopy,
                              !.tried = Top.tried \cup {value}]
         IN  IF Consistent(assignmentCopy)
             THEN /\ heap' = Append(heap, EmptyDict)
                  /\ stack' = Append(SetTop([f EXCEPT !.at = "called"]),
                                     Frame(Top.assignment, heap[Top.assignment]))
             ELSE /\ heap' = heap
                  /\ stack' = SetTop(f)
    /\ ret' = Running
    /\ UNCHANGED <<crossword, varOrder, domains, pc, arcs, ac3ret, result,
                   call>>

\* Lines 285-290: the next value of the loop, in the iteration order of the
\* set self.domains[var], which is any order.
BacktrackTry ==
    /\ pc = "search"
    /\ Depth > 0
    /\ Top.at = "loop"
    /\ \E value \in domains[Top.var] \ Top.tried :
         LET assignmentCopy == DictSet(heap[Top.assignment], Top.var, value)
             f == [Top EXCEPT !.value = value, !.assignmentCopy = assignmentCopy,
                              !.tried = Top.tried \cup {value}]
         IN  IF Consistent(assignmentCopy)
             THEN LET h == [heap EXCEPT ![Top.assignment] =
                                DictSet(heap[Top.assignment], Top.var, value)]
                  IN  /\ heap' = Append(h, EmptyDict)
                      /\ stack' = Append(SetTop([f EXCEPT !.at = "called"]),
                                         Frame(Top.assignment, h[Top.assignment]))
             ELSE /\ heap' = heap
                  /\ stack' = SetTop(f)
    /\ ret' = Running
    /\ UNCHANGED <<crossword, varOrder, domains, pc, arcs, ac3ret, result,
                   call>>

\* BacktrackResume returning None as soon as a recursive call has failed,
\* instead of going on with the next value.
BacktrackResumeGivesUp ==
    /\ pc = "search"
    /\ Depth > 0
    /\ Top.at = "called"
    /\ ret # Running
    /\ stack' = Pop
    /\ heap' = IF ret # ReturnedNone THEN heap ELSE SubSeq(heap, 1, Depth)
    /\ ret' = ret
    /\ UNCHANGED <<crossword, varOrder, domains, pc, arcs, ac3ret, result,
                   call>>

\* BacktrackResume without line 293: after a failed recursive call the name
\* assignment stays bound to the dict the call was given.
BacktrackResumeNoRebind ==
    /\ pc = "search"
    /\ Depth > 0
    /\ Top.at = "called"
    /\ ret # Running
    /\ IF ret # ReturnedNone
       THEN /\ stack' = Pop
            /\ UNCHANGED <<heap, ret>>
       ELSE /\ heap' = heap
            /\ stack' = SetTop([Top EXCEPT !.at = "loop"])
            /\ ret' = Running
    /\ UNCHANGED <<crossword, varOrder, domains, pc, arcs, ac3ret, result,
                   call>>

\* Lines 290-293: the recursive call has returned.
BacktrackResume ==
    /\ pc = "search"
    /\ Depth > 0
    /\ Top.at = "called"
    /\ ret # Running
    /\ IF ret # ReturnedNone
       THEN /\ stack' = Pop
            /\ UNCHANGED <<heap, ret>>
       ELSE /\ heap' = [heap EXCEPT ![Depth + 1] = Top.assignmentCopy]
            /\ stack' = SetTop([Top EXCEPT !.assignment = Depth + 1, !.at = "loop"])
            /\ ret' = Running
    /\ UNCHANGED <<crossword, varOrder, domains, pc, arcs, ac3ret, result,
                   call>>

\* Line 295: the loop is over, the call returns None.
BacktrackFail ==
    /\ pc = "search"
    /\ Depth > 0
    /\ Top.at = "loop"
    /\ domains[Top.var] \ Top.tried = {}
    /\ stack' = Pop
    /\ heap' = SubSeq(heap, 1, Depth)
    /\ ret' = ReturnedNone
    /\ UNCHANGED <<crossword, varOrder, domains, pc, arcs, ac3ret, result,
                   call>>

\* Line 94: solve() returns what the root call returned.
SolveReturn ==
    /\ pc = "search"
    /\ Depth = 0
    /\ result' = IF ret = ReturnedNone THEN NoSolution ELSE Solution(heap[ret.ref])
    /\ pc' = "done"
    /\ UNCHANGED <<crossword, varOrder, domains, arcs, ac3ret, heap, stack,
                   ret, call>>

Next ==
    \/ SolveNodeConsistency
    \/ Ac3Start
    \/ Ac3Step
    \/ Ac3Done
    \/ SolveBacktrack
    \/ BacktrackEnter
    \/ BacktrackTry
    \/ BacktrackResume
    \/ BacktrackFail
    \/ SolveReturn

Spec == Init /\ [][Next]_vars

(***************************************************************************)
(* Direct calls of revise(x, y), one after another, on any two different  *)
(* slots, starting from the store that enforce_node_consistency leaves     *)
(* (the store solve() holds when ac3 first revises).  An exception ends    *)
(* the run.                                                                *)
(***************************************************************************)
\* The domains enforce_node_consistency leaves from the constructor's.
NodeConsistentDomains == EnforceNodeConsistency(InitialDomains)

\* One fixed iteration order of self.domains, for the calls that do not read it.
SomeOrder == CHOOSE q \in Orders(Vars) : TRUE

InitRevise ==
    /\ structure \in Structures
    /\ words \in WordLists
    /\ variables = Variables(structure)
    /\ overlaps = Overlaps(variables)
    /\ varOrder = SomeOrder
    /\ domains = NodeConsistentDomains
    /\ pc = "call"
    /\ arcs = <<>>
    /\ ac3ret = "none"
    /\ heap = <<>>
    /\ stack = <<>>
    /\ ret = Running
    /\ result = Pending
    /\ call = NoCall

CallRevise ==
    /\ pc = "call"
    /\ \E x, y \in Vars :
         /\ x # y
         /\ LET r == Revise(domains, x, y)
            IN  /\ domains' = r.domains
                /\ call' = [op |-> "revise", x |-> x, y |-> y, before |-> domains,
                            error |-> r.error, returned |-> r.revisionMade]
                /\ pc' = IF r.error = "none" THEN "call" ELSE "raised"
    /\ UNCHANGED <<crossword, varOrder, arcs, ac3ret, heap, stack, ret,
                   result>>

NextRevise == CallRevise

SpecRevise == InitRevise /\ [][NextRevise]_vars

(***************************************************************************)
(* Direct calls of consistent(assignment): on any dict from some of the    *)
(* slots to words of the word list.                                        *)
(***************************************************************************)
Assignments == UNION {[keys -> words] : keys \in SUBSET Vars}

InitConsistent ==
    /\ structure \in Structures
    /\ words \in WordLists
    /\ variables = Variables(structure)
    /\ overlaps = Overlaps(variables)
    /\ varOrder = SomeOrder
    /\ domains = InitialDomains
    /\ pc = "call"
    /\ arcs = <<>>
    /\ ac3ret = "none"
    /\ heap = <<>>
    /\ stack = <<>>
    /\ ret = Running
    /\ result = Pending
    /\ call = NoCall

\* consistent() has no statement that assigns to the dict it is given or to
\* self.domains.
CallConsistent ==
    /\ pc = "call"
    /\ \E a \in Assignments :
         call' = [op |-> "consistent", assignment |-> a, after |-> a,
                  before |-> domains, returned |-> Consistent(a)]
    /\ pc' = "returned"
    /\ UNCHANGED <<crossword, varOrder, domains, arcs, ac3ret, heap, stack,
                   ret, result>>

NextConsistent == CallConsistent

SpecConsistent == InitConsistent /\ [][NextConsistent]_vars

(***************************************************************************)
(* Direct calls of select_unassigned_variable(assignment): on the store of *)
(* the constructor, on the store enforce_node_consistency makes of it and  *)
(* on every store that revise calls on neighbours make of that one, for    *)
(* any dict that leaves a slot unassigned.                                 *)
(***************************************************************************)
InitSelect ==
    /\ structure \in Structures
    /\ words \in WordLists
    /\ variables = Variables(structure)
    /\ overlaps = Overlaps(variables)
    /\ varOrder \in Orders(Vars)
    /\ domains = InitialDomains
    /\ pc = "new"
    /\ arcs = <<>>
    /\ ac3ret = "none"
    /\ heap = <<>>
    /\ stack = <<>>
    /\ ret = Running
    /\ result = Pending
    /\ call = NoCall

\* enforce_node_consistency() on the store of the constructor.
StoreNodeConsistency ==
    /\ pc = "new"
    /\ domains' = EnforceNodeConsistency(domains)
    /\ pc' = "call"
    /\ UNCHANGED <<crossword, varOrder, arcs, ac3ret, heap, stack, ret, result,
                   call>>

\* revise(x, y) on two neighbours, when it changes the store.
StoreRevise ==
    /\ pc = "call"
    /\ \E x \in Vars : \E y \in Neighbors(x) :
         /\ Revise(domains, x, y).revisionMade
         /\ domains' = Revise(domains, x, y).domains
    /\ UNCHANGED <<crossword, varOrder, pc, arcs, ac3ret, heap, stack, ret, result,
                   call>>

CallSelect ==
    /\ pc \in {"new", "call"}
    /\ \E a \in Assignments :
         /\ DOMAIN a # Vars
         /\ call' = [op |-> "select", assignment |-> a, before |-> domains,
                     returned |-> SelectUnassignedVariable(domains, a)]
    /\ pc' = "returned"
    /\ UNCHANGED <<crossword, varOrder, domains, arcs, ac3ret, heap, stack, ret,
                   result>>

NextSelect ==
    \/ StoreNodeConsistency
    \/ StoreRevise
    \/ CallSelect

SpecSelect == InitSelect /\ [][NextSelect]_vars

(***************************************************************************)
(* Direct calls of order_domain_values(var, assignment): on the store      *)
(* enforce_node_consistency leaves and on every store that revise calls on *)
(* neighbours make of it, for any slot and any dict that backtrack can     *)
(* hold (one that consistent() accepts).                                   *)
(***************************************************************************)
InitOrder ==
    /\ structure \in OrderStructures
    /\ words \in WordLists
    /\ variables = Variables(structure)
    /\ overlaps = Overlaps(variables)
    /\ varOrder = SomeOrder
    /\ domains = NodeConsistentDomains
    /\ pc = "call"
    /\ arcs = <<>>
    /\ ac3ret = "none"
    /\ heap = <<>>
    /\ stack = <<>>
    /\ ret = Running
    /\ result = Pending
    /\ call = NoCall

CallOrder ==
    /\ pc = "call"
    /\ \E a \in {b \in Assignments : Consistent(b)} :
         \E var \in Vars : \E o \in Orders(domains[var]) :
             call' = [op |-> "order", var |-> var, assignment |-> a,
                      before |-> domains,
                      returned |-> OrderDomainValues(domains, var, a, o)]
    /\ pc' = "returned"
    /\ UNCHANGED <<crossword, varOrder, domains, arcs, ac3ret, heap, stack, ret,
                   result>>

NextOrder ==
    \/ StoreRevise
    \/ CallOrder

SpecOrder == InitOrder /\ [][NextOrder]_vars


(***************************************************************************)
(* Direct calls of enforce_node_consistency(): on the store of the         *)
(* constructor, on the store one run makes of it and on every store that   *)
(* revise calls on neighbours make of that one; up to two runs in a row.   *)
(***************************************************************************)
MaxRuns == 2

CallNodeConsistency ==
    /\ pc \in {"new", "call", "returned"}
    /\ pc = "returned" => call.runs < MaxRuns
    /\ domains' = EnforceNodeConsistency(domains)
    /\ call' = IF pc = "returned"
               THEN [call EXCEPT !.runs = call.runs + 1]
               ELSE [op |-> "node", before |-> domains,
                     once |-> EnforceNodeConsistency(domains), runs |-> 1]
    /\ pc' = "returned"
    /\ UNCHANGED <<crossword, varOrder, arcs, ac3ret, heap, stack, ret, result>>

NextNode ==
    \/ StoreNodeConsistency
    \/ StoreRevise
    \/ CallNodeConsistency

SpecNode == InitSelect /\ [][NextNode]_vars


(***************************************************************************)
(* Direct calls of ac3(arcs): from the store enforce_node_consistency      *)
(* leaves and from every store with one word less in one slot, on any list *)
(* of different arcs between overlapping slots.                            *)
(***************************************************************************)
\* The grids of the calls of ac3: those whose slots all have three cells.
Ac3Structures == {s \in OrderStructures : \A v \in Variables(s) : v.length = 3}

\* The words of the calls of ac3: of three letters, the first of three
\* possible letters, the last of two and the middle one fixed (the slots of
\* the grid with three slots cross at their first and last cells).
Ac3WordUniverse ==
    {w \in [1..3 -> {"a", "b", "c"}] : w[2] = "a" /\ w[3] \in Alphabet}
Ac3WordLists == {ws \in SUBSET Ac3WordUniverse : Cardinality(ws) <= MaxWords}

\* The arcs between overlapping slots.
AllArcs == {arc \in Vars \X Vars : arc[2] \in Neighbors(arc[1])}

\* The node-consistent store and the stores with one word less in one slot.
Ac3Stores ==
    {NodeConsistentDomains}
        \cup {[NodeConsistentDomains EXCEPT ![v] = NodeConsistentDomains[v] \ {w}] :
                 v \in Vars, w \in words}

InitAc3 ==
    /\ structure \in Ac3Structures
    /\ words \in Ac3WordLists
    /\ variables = Variables(structure)
    /\ overlaps = Overlaps(variables)
    /\ varOrder = SomeOrder
    /\ domains \in Ac3Stores
    /\ pc = "ac3loop"
    /\ arcs \in UNION {Orders(given) : given \in SUBSET AllArcs}
    /\ ac3ret = "none"
    /\ heap = <<>>
    /\ stack = <<>>
    /\ ret = Running
    /\ result = Pending
    /\ call = [op |-> "ac3", before |-> domains, arcs |-> arcs]

NextAc3 ==
    \/ Ac3Step
    \/ Ac3Done

SpecAc3 == InitAc3 /\ [][NextAc3]_vars

\* The loop of ac3 goes on as long as it can.
SpecAc3Fair == SpecAc3 /\ WF_vars(NextAc3)

(***************************************************************************)
(* What the properties below speak of.                                     *)
(***************************************************************************)
\* Words x and y of slots u and v agree at the overlap of u and v.
Agree(u, x, v, y) ==
    LET o == Overlap(u, v) IN Letter(x, o[1]) = Letter(y, o[2])

\* The assignment a gives every slot a word.
IsComplete(a) == DOMAIN a = Vars

\* The words of a are pairwise distinct.
Distinct(a) == \A u, v \in DOMAIN a : u # v => a[u] # a[v]

\* Every word of a has the length of its slot.
Fits(a) == \A v \in DOMAIN a : Len(a[v]) = v.length

\* Every two overlapping slots of a agree at their overlap.
Crosses(a) ==
    \A u, v \in DOMAIN a :
        (u # v /\ Overlap(u, v) # None) => Agree(u, a[u], v, a[v])

\* The complete consistent assignments over the word list.
Solutions == {a \in [Vars -> words] : Distinct(a) /\ Fits(a) /\ Crosses(a)}

\* Some slot requires a length that no word of the word list has.
SomeSlotWithoutWord == \E v \in Vars : \A w \in words : Len(w) # v.length

\* The grid has exactly two slots and they share no cell.
TwoSeparateSlots ==
    /\ Cardinality(Vars) = 2
    /\ \A u, v \in Vars : u # v => Overlap(u, v) = None

(***************************************************************************)
(* Properties of solve().                                                  *)
(***************************************************************************)
\* C1: whatever solve() returns is the no-solution value or an assignment
\* that gives every slot a word, with the words pairwise distinct, each of its
\* slot's length, and agreeing at every overlap.
C1_SolveReturnsCompleteConsistent ==
    /\ (pc = "done") = (result # Pending)
    /\ result.kind = "dict" =>
          /\ IsComplete(result.assignment)
          /\ Distinct(result.assignment)
          /\ Fits(result.assignment)
          /\ Crosses(result.assignment)

\* C1 witness: solve() has returned an assignment for a grid with two
\* crossing slots.
C1_Witness ==
    /\ pc = "done"
    /\ result.kind = "dict"
    /\ \E u, v \in Vars : u # v /\ Overlap(u, v) # None

\* C2 as stated: solve() returns no-solution only when there is no complete
\* consistent assignment; when there is exactly one, solve() returns it; and
\* for two slots that share no cell, with a word of each required length,
\* solve() returns an assignment.
C2_SearchCompleteAsStated ==
    pc = "done" =>
        /\ result = NoSolution => Solutions = {}
        /\ \A a \in Solutions : Solutions = {a} => result = Solution(a)
        /\ (TwoSeparateSlots /\ ~SomeSlotWithoutWord) => result.kind = "dict"

\* C2 amended: as C2, but for two slots that share no cell solve() returns an
\* assignment when the word list has a word of each required length and, if
\* both slots require the same length, two words of that length.
C2_SearchComplete ==
    pc = "done" =>
        /\ result = NoSolution => Solutions = {}
        /\ \A a \in Solutions : Solutions = {a} => result = Solution(a)
        /\ ( /\ TwoSeparateSlots
             /\ ~SomeSlotWithoutWord
             /\ \A u, v \in Vars :
                  (u # v /\ u.length = v.length) =>
                      Cardinality({w \in words : Len(w) = u.length}) >= 2 )
           => result.kind = "dict"

\* C2 witness: the only complete consistent assignment of a grid with
\* crossing slots has been returned, after a candidate word was given up.
C2_Witness ==
    /\ pc = "done"
    /\ Cardinality(Solutions) = 1
    /\ result.kind = "dict"
    /\ result.assignment \in Solutions
    /\ \E u, v \in Vars : u # v /\ Overlap(u, v) # None
    /\ \E v \in Vars : Cardinality(domains[v]) > 1

\* C3: after ac3 has returned False, solve() makes no call of backtrack.
C3_NoSearchAfterAc3Failure ==
    ac3ret = "false" => (pc # "search" /\ stack = <<>>)

\* C4: ac3 returns True only if no domain is empty.
C4_Ac3TrueOnlyIfNoEmptyDomain ==
    ac3ret = "true" => \A v \in Vars : domains[v] # {}

\* C5: when some slot requires a length that no word of the word list has,
\* solve() returns no-solution.
C5_MissingLengthGivesNoSolution ==
    (pc = "done" /\ SomeSlotWithoutWord) => result = NoSolution

\* C5 witness: solve() has returned no-solution for a grid where a slot with
\* a neighbour has no word of its length and another slot has words of its own.
C5_Witness ==
    /\ pc = "done"
    /\ result = NoSolution
    /\ \E v \in Vars :
         /\ \A w \in words : Len(w) # v.length
         /\ Neighbors(v) # {}
    /\ \E v \in Vars : \E w \in words : Len(w) = v.length

\* C6: after ac3() returned True, every word left in a slot's domain has, for
\* every neighbour of the slot, a word in the neighbour's domain that agrees
\* with it at their overlap.
C6_Ac3Soundness ==
    ac3ret = "true" =>
        \A x \in Vars : \A y \in Neighbors(x) : \A w \in domains[x] :
            \E c \in domains[y] : Agree(x, w, y, c)

\* C6 witness: ac3 returned True after removing words from a domain, leaving
\* neighbouring slots with words.
C6_Witness ==
    /\ ac3ret = "true"
    /\ domains # NodeConsistentDomains
    /\ \E x \in Vars : \E y \in Neighbors(x) : domains[x] # {} /\ domains[y] # {}

\* C9: in every call of backtrack the words of the selected slot are tried
\* in least-constraining order: no word is tried while a word of the domain
\* with a strictly smaller ruled-out count is still untried.
C9_LeastConstrainingOrder ==
    \A k \in DOMAIN stack :
        LET f == stack[k]
        IN  f.at # "entry" =>
              \A w \in f.tried : \A u \in domains[f.var] \ f.tried :
                  ChoicesRuledOut(domains, f.var, f.entry, w)
                      <= ChoicesRuledOut(domains, f.var, f.entry, u)

(***************************************************************************)
(* Properties of revise(x, y).                                             *)
(***************************************************************************)
\* C7: for overlapping x and y, revise(x, y) leaves in x's domain exactly its
\* former words that agree with some word of y's domain at the overlap, leaves
\* every other domain as it was, and returns True exactly if x's domain changed.
C7_ReviseContract ==
    (call.op = "revise" /\ Overlap(call.x, call.y) # None) =>
        /\ call.error = "none"
        /\ domains[call.x] =
              {w \in call.before[call.x] :
                  \E c \in call.before[call.y] : Agree(call.x, w, call.y, c)}
        /\ \A v \in Vars \ {call.x} : domains[v] = call.before[v]
        /\ call.returned = (domains[call.x] # call.before[call.x])

\* C7 witness: a revise of overlapping slots has removed some but not all of
\* the words of x's domain.
C7_Witness ==
    /\ call.op = "revise"
    /\ Overlap(call.x, call.y) # None
    /\ call.returned
    /\ domains[call.x] # {}
    /\ domains[call.x] # call.before[call.x]

\* C8: for x and y that share no cell, revise(x, y) raises no error, changes
\* no domain and returns False.
C8_ReviseWithoutOverlapIsNoOp ==
    (call.op = "revise" /\ Overlap(call.x, call.y) = None) =>
        /\ call.error = "none"
        /\ domains = call.before
        /\ call.returned = FALSE

(***************************************************************************)
(* Properties of consistent(assignment).                                   *)
(***************************************************************************)
\* C10: consistent(assignment) returns True exactly if the assigned words
\* are pairwise distinct, each has its slot's length, and every two assigned
\* overlapping slots agree at their overlap; the call changes neither the
\* assignment nor a domain.
C10_ConsistentContract ==
    call.op = "consistent" =>
        /\ call.returned =
              (Distinct(call.assignment) /\ Fits(call.assignment)
                  /\ Crosses(call.assignment))
        /\ call.after = call.assignment
        /\ domains = call.before

\* C10 witness: consistent() has returned True for a partial assignment that
\* leaves a slot crossing an assigned slot unassigned.
C10_Witness ==
    /\ call.op = "consistent"
    /\ call.returned
    /\ \E u \in DOMAIN call.assignment : \E v \in Neighbors(u) :
           v \notin DOMAIN call.assignment
    /\ Cardinality(DOMAIN call.assignment) >= 2

(***************************************************************************)
(* Properties of select_unassigned_variable(assignment).                   *)
(***************************************************************************)
\* C11: when the assignment leaves a slot unassigned,
\* select_unassigned_variable returns an unassigned slot whose domain is the
\* smallest among the unassigned slots and whose number of neighbours is the
\* largest among the unassigned slots with a domain of that size.
C11_SelectMrvThenDegree ==
    call.op = "select" =>
        LET free == Vars \ DOMAIN call.assignment
            size(v) == Cardinality(domains[v])
            degree(v) == Cardinality({u \in Vars : u # v /\ Overlap(u, v) # None})
            s == call.returned
        IN  /\ s \in free
            /\ \A v \in free : size(s) <= size(v)
            /\ \A v \in free : size(v) = size(s) => degree(v) <= degree(s)

\* C11 witness: a slot has been returned that comes after another
\* unassigned slot with as small a domain in the order of self.domains, and
\* has more neighbours than that one.
C11_Witness ==
    /\ call.op = "select"
    /\ \E v \in Vars \ DOMAIN call.assignment :
         /\ v # call.returned
         /\ Cardinality(domains[v]) = Cardinality(domains[call.returned])
         /\ Position(v) < Position(call.returned)
         /\ Cardinality(Neighbors(v)) < Cardinality(Neighbors(call.returned))

(***************************************************************************)
(* Properties of order_domain_values(var, assignment).                     *)
(***************************************************************************)
RECURSIVE RuledOut(_, _, _)
\* The number of pairs (n, c), n one of the slots ns and c a word of n's
\* domain, whose letter at the overlap differs from that of word w of var.
RuledOut(ns, var, w) ==
    IF ns = {} THEN 0
    ELSE LET n == CHOOSE x \in ns : TRUE
         IN  Cardinality({c \in domains[n] : ~Agree(var, w, n, c)})
                 + RuledOut(ns \ {n}, var, w)

\* C12: order_domain_values(var, assignment) returns every word of var's
\* domain once and nothing else, in non-decreasing order of the number of
\* pairs (n, c) ruled out, n a neighbour of var not in the assignment.
C12_OrderDomainValuesContract ==
    call.op = "order" =>
        LET q == call.returned
            free == Neighbors(call.var) \ DOMAIN call.assignment
        IN  /\ {q[k] : k \in DOMAIN q} = domains[call.var]
            /\ Len(q) = Cardinality(domains[call.var])
            /\ \A m, n \in DOMAIN q :
                  m < n => RuledOut(free, call.var, q[m]) <= RuledOut(free, call.var, q[n])

\* C12 witness: the words of a slot with an assigned and an unassigned
\* neighbour have been ordered, and their counts differ.
C12_Witness ==
    /\ call.op = "order"
    /\ Neighbors(call.var) \cap DOMAIN call.assignment # {}
    /\ Neighbors(call.var) \ DOMAIN call.assignment # {}
    /\ Len(call.returned) >= 2
    /\ RuledOut(Neighbors(call.var) \ DOMAIN call.assignment, call.var,
                call.returned[1])
         < RuledOut(Neighbors(call.var) \ DOMAIN call.assignment, call.var,
                    call.returned[Len(call.returned)])


\* C13: every step of solve() leaves each slot's domain a subset of what it
\* was, and of the word list; no step of backtrack changes a domain.
C13_MonotonicShrink ==
    [][/\ \A v \in Vars :
             domains'[v] \subseteq domains[v] /\ domains'[v] \subseteq words
       /\ pc \in {"bt", "search"} => domains' = domains]_vars

\* C13 witness: backtrack is running on domains that node consistency and
\* then revise have both made smaller.
C13_Witness ==
    /\ pc = "search"
    /\ Depth > 1
    /\ NodeConsistentDomains # InitialDomains
    /\ domains # NodeConsistentDomains
    /\ \A v \in Vars : domains[v] \subseteq NodeConsistentDomains[v]


\* C14: enforce_node_consistency leaves in each slot's domain exactly the
\* words of that domain whose length is the slot's, and a second run leaves
\* the domains of the first.
C14_NodeConsistencyExactIdempotent ==
    (pc = "returned" /\ call.op = "node") =>
        /\ \A v \in Vars :
              domains[v] = {w \in call.before[v] : Len(w) = v.length}
        /\ domains = call.once

\* C14 witness: the second of two runs has returned, the first having
\* removed a word from one slot and kept a word in another.
C14_Witness ==
    /\ pc = "returned"
    /\ call.op = "node"
    /\ call.runs = 2
    /\ \E v \in Vars : domains[v] # call.before[v]
    /\ \E v \in Vars : domains[v] # {}


\* C15: when a call backtrack(assignment) has returned None, the dict it was
\* handed holds exactly the entries it held when the call began: the dict of
\* solve() none, a caller's dict those of the caller's assignmentCopy.
C15_FailedCallRestoresAssignment ==
    (pc = "search" /\ ret = ReturnedNone) =>
        IF Depth = 0
        THEN heap[1] = EmptyDict
        ELSE heap[Top.assignment] = Top.assignmentCopy


\* C16: in every call of backtrack, the dict given to consistent() for the
\* value being tried, and the dict the recursive call receives, is the dict
\* the call received extended with var := value and nothing else.
C16_CandidateViewIsEntryPlusValue ==
    \A k \in 1..Depth :
        stack[k].value # NoWord =>
            /\ stack[k].assignmentCopy =
                   DictSet(stack[k].entry, stack[k].var, stack[k].value)
            /\ k < Depth =>
                   stack[k + 1].entry =
                       DictSet(stack[k].entry, stack[k].var, stack[k].value)

\* C16 witness: the outermost call has made a recursive call for a later
\* value, after a recursive call that failed and left the entries of two
\* levels in the dict of solve().
C16_Witness ==
    /\ pc = "search"
    /\ Depth >= 2
    /\ stack[1].at = "called"
    /\ stack[1].assignment = 2
    /\ Cardinality(stack[1].tried) >= 2
    /\ Cardinality(DOMAIN heap[1]) >= 2
    /\ stack[2].entry = stack[1].assignmentCopy


\* C17: from any store and any worklist of arcs between overlapping slots,
\* ac3 eventually returns, True with the worklist empty or False with a domain
\* empty; and no turn of the loop appends an arc unless a domain has
\* strictly shrunk in that turn.
C17_Ac3Terminates ==
    /\ <>(/\ pc = "bt"
          /\ \/ ac3ret = "true" /\ arcs = <<>>
             \/ ac3ret = "false" /\ \E v \in Vars : domains[v] = {})
    /\ [][(pc = "ac3loop" /\ arcs # <<>> /\ arcs' # Tail(arcs)) =>
             \E v \in Vars :
                 domains'[v] \subseteq domains[v] /\ domains'[v] # domains[v]]_vars

\* C17 witness: ac3 has returned True after shrinking the domain of a slot
\* with two neighbours, which appended an arc to the worklist.
C17_Witness ==
    /\ call.op = "ac3"
    /\ pc = "bt"
    /\ ac3ret = "true"
    /\ \E x \in Vars :
          /\ Cardinality(Neighbors(x)) >= 2
          /\ domains[x] # call.before[x]


RECURSIVE Ac3Outcome(_, _)
\* What ac3 returns and the domains it leaves, from the domains d and the
\* worklist q, when the arcs it appends are taken in one fixed order.
Ac3Outcome(d, q) ==
    IF q = <<>> THEN [returned |-> "true", domains |-> d]
    ELSE LET x == Head(q)[1]
             y == Head(q)[2]
             r == Revise(d, x, y)
         IN  IF r.revisionMade /\ r.domains[x] = {}
             THEN [returned |-> "false", domains |-> r.domains]
             ELSE IF r.revisionMade
             THEN Ac3Outcome(r.domains,
                             Tail(q) \o (CHOOSE more \in Requeued(x, y) : TRUE))
             ELSE Ac3Outcome(d, Tail(q))

\* One fixed ordering of the arcs of the list q.
SomeOrdering(q) == CHOOSE o \in Orders({q[k] : k \in DOMAIN q}) : TRUE

C19_RecursionDepthBounded ==
    /\ Depth <= Cardinality(Vars) + 1
    /\ \A k \in 1..(Depth - 1) :
          /\ DOMAIN stack[k].entry \subseteq DOMAIN stack[k + 1].entry
          /\ DOMAIN stack[k].entry # DOMAIN stack[k + 1].entry

\* C19 witness: on a grid of three slots, four calls of backtrack are nested.
C19_Witness ==
    /\ pc = "search"
    /\ Cardinality(Vars) = 3
    /\ Depth = 4

\* C20: every complete consistent assignment over the word list has each
\* slot's word in that slot's domain, at every step of solve(); so whenever a
\* domain is empty there is no such assignment.
C20_PropagationKeepsSolutions ==
    /\ \A a \in Solutions : \A v \in Vars : a[v] \in domains[v]
    /\ (\E v \in Vars : domains[v] = {}) => Solutions = {}

\* C20 witness: ac3 has returned after revise removed words that node
\* consistency had kept, on an input that has a complete consistent
\* assignment.
C20_Witness ==
    /\ pc = "bt"
    /\ ac3ret = "true"
    /\ Solutions # {}
    /\ \E v \in Vars :
          domains[v] # NodeConsistentDomains[v] /\ NodeConsistentDomains[v] # words

====
